---- MODULE Spec2Model ----
(***************************************************************************)
(* The AI Story Generator (src/app.py): a Streamlit script that collects   *)
(* six inputs, sends them through story_chain (prompt | llm | parser),     *)
(* shows the StoryOutput and renders it to a temporary PDF for download.   *)
(*                                                                         *)
(* Text is modelled as a sequence of one-character strings wherever the    *)
(* code looks inside it (the Story is split on newlines); the prompt is    *)
(* the sequence of its literal pieces and interpolated values.             *)
(***************************************************************************)
EXTENDS Integers, Sequences, FiniteSets

VARIABLES
    user_topic,   \* st.text_input, line 95
    genre,        \* st.selectbox, line 96
    language,     \* st.selectbox, line 101
    age,          \* st.number_input, line 106
    name,         \* st.text_input, line 107
    checkbox,     \* the state of the parent-safe checkbox, line 109
    pc,           \* where the script run stands
    ui,           \* the conditional elements the current run has written
    call,         \* what story_chain.invoke was called with in this run
    result,       \* the StoryOutput the chain returned in this run
    exc,          \* the exception the handler caught in this run
    stages,       \* the pipeline stages this run has entered, in order
    files,        \* the temporary files that exist
    pdf_path,     \* the path generate_pdf returned in this run
    pdf,          \* the text lines drawn into the file at pdf_path
    nGenerated    \* the number of runs whose story_chain.invoke returned

vars == <<user_topic, genre, language, age, name, checkbox, pc, ui, call,
          result, exc, stages, files, pdf_path, pdf, nGenerated>>

-----------------------------------------------------------------------------
(* Bounds of the model *)

\* The temporary directory holds at most this many names.
MaxPaths == 3

\* The generation service answers at most this many requests with a story.
MaxGenerated == 2

\* The longest Story the renderer specification draws.
MaxStoryLen == 3

-----------------------------------------------------------------------------
(* The widgets' domains *)

MinAge == 3
MaxAge == 100

\* The ages the model lets the user enter: both ends of the widget's range
\* and both sides of every threshold the code or the prompt names.
Ages == {MinAge, 6, 7, 12, 13, 17, 18, 19, MaxAge}

Genres == {"Adventure", "Educational", "Fairy Tale", "Fantasy", "Fiction",
           "Motivational", "Mystery", "Sci-Fi"}

Languages == {"English", "Hindi", "Gujarati"}

Topics == {"", "a brave fox"}

Names == {"", "Mia"}

Paths == 1..MaxPaths

\* The path variable of a run in which generate_pdf has not returned.
NoPath == 0

-----------------------------------------------------------------------------
(* Text helpers *)

NL == "\n"

Range(s) == {s[i] : i \in 1..Len(s)}

\* All sequences over S of length at most n.
SeqsUpTo(S, n) == UNION {[1..k -> S] : k \in 0..n}

\* Python's str.split("\n"): the pieces between newlines, empty ones kept.
RECURSIVE split(_)
split(s) ==
    IF \A i \in 1..Len(s) : s[i] # NL
    THEN <<s>>
    ELSE LET i == CHOOSE k \in 1..Len(s) :
                      s[k] = NL /\ \A j \in 1..(k - 1) : s[j] # NL
         IN  <<SubSeq(s, 1, i - 1)>> \o split(SubSeq(s, i + 1, Len(s)))

Digit == <<"0", "1", "2", "3", "4", "5", "6", "7", "8", "9">>

\* Python's str() of a non-negative int, as the template's {age} formats it.
RECURSIVE str(_)
str(n) ==
    IF n < 10 THEN <<Digit[n + 1]>>
    ELSE str(n \div 10) \o <<Digit[(n % 10) + 1]>>

-----------------------------------------------------------------------------
(* Output schema and prompt *)

\* The StoryOutputs the generation service returns in the shell
\* specification: one with a Moral and one with an empty Moral.
Replies ==
    [Topic : {<<"T">>}, Story : {<<"a", NL, "b">>}, Moral : {<<>>, <<"m">>}]

\* The StoryOutputs the renderer specification draws.
StoryOutputs ==
    [Topic : {<<>>, <<"T">>},
     Story : SeqsUpTo({"a", NL}, MaxStoryLen),
     Moral : {<<>>, <<"m">>}]

format_instructions == "format_instructions(StoryOutput: Topic, Story, Moral)"

\* The age guidelines of the human message, one entry per line of the table.
GuidelineLines ==
    << "- Age 3-6: Very simple words, cheerful tone, short sentences",
       "- Age 7-12: Simple plot, light adventure, positive moral",
       "- Age 13-17: Deeper emotions, character growth, mild conflict",
       "- Age 18+: Mature themes, nuanced characters, richer language" >>

SystemMessage ==
    << "You are a creative, professional and award winning author ...",
       "You MUST return ONLY valid JSON. ",
       "Do NOT include explanations, markdown, or extra text." >>

TopicLabel == "Theme / Topic: "
AgeLabel == "Reader Age: "
GenreLabel == "Genre: "
NameLabel == "Character: "
GuidelinesLabel == "Age Guidelines:"

\* The messages of the template, formatted: the system text, then the human
\* text with its placeholders replaced; `extra` stands between the character
\* line and the format instructions, `table` is the guideline lines.
Messages(args, extra, table) ==
    SystemMessage
    \o << "Write a 400 words story based on the following details:" >>
    \o << TopicLabel, args.topic >>
    \o << AgeLabel >> \o str(args.age)
    \o << GenreLabel, args.genre >>
    \o << NameLabel, args.name >>
    \o extra
    \o << format_instructions >>
    \o << GuidelinesLabel >>
    \o table
    \o << "Ensure the content is fully appropriate for the given age." >>

\* The template without the 7-12 line of the table.
prompt_without_band(args) ==
    Messages(args, <<>>,
             << GuidelineLines[1], GuidelineLines[3], GuidelineLines[4] >>)

\* The template with a {language} placeholder as well.
prompt_with_language(args) ==
    Messages(args, << "Language: ", args.language >>, GuidelineLines)

\* ChatPromptTemplate.format: the placeholders of the template are {topic},
\* {age}, {genre}, {name} and {format_instructions}; the other keys of the
\* input ("language", "parent_safe") are not placeholders and are dropped.
prompt(args) ==
    Messages(args, <<>>, GuidelineLines)

\* The runnables of the chain, in the order the pipe runs them.
story_chain == <<"prompt", "llm", "story_parser">>

-----------------------------------------------------------------------------
(* PDF generator *)

MoralLabel == <<NL, "M", "o", "r", "a", "l", ":">>

TextLine(font, size, text) == [font |-> font, size |-> size, text |-> text]

\* A tempfile that may hand out a name an existing file has.
NamedTemporaryFile_reusing(existing) == Paths

\* The names tempfile may hand out: any name no existing file has
\* (the file is opened with O_EXCL).
NamedTemporaryFile(existing) == Paths \ existing

\* The textLine calls of generate_pdf, in order: each call draws its argument
\* as one line of the text object, whatever characters it holds.
generate_pdf(r) ==
    << TextLine("Helvetica-Bold", 14, r.Topic),
       TextLine("Helvetica-Bold", 14, <<>>) >>
    \o [i \in 1..Len(split(r.Story)) |->
            TextLine("Helvetica", 11, split(r.Story)[i])]
    \o << TextLine("Helvetica", 11, MoralLabel),
          TextLine("Helvetica", 11, r.Moral) >>

-----------------------------------------------------------------------------
(* Streamlit UI *)

\* The checkbox read at every age.
parent_safe_unforced == checkbox

\* Line 109: the checkbox is only drawn, and only read, up to age 18.
parent_safe == IF age > 18 THEN FALSE ELSE checkbox

\* The validation with "and" for "or".
RequiredFieldsMissing_both == user_topic = "" /\ name = ""

\* Line 112.
RequiredFieldsMissing == user_topic = "" \/ name = ""

\* The input of story_chain.invoke, lines 117-124.
InvokeArgs ==
    [topic |-> user_topic, genre |-> genre, language |-> language,
     age |-> age, name |-> name, parent_safe |-> parent_safe]

\* The moral shown for every genre.
ShowsMoral_always(g) == TRUE

\* Line 132.
ShowsMoral(g) == g = "Motivational" \/ g = "Educational"

\* Lines 126-134: what the run writes once the chain has returned.
ShowResult(g) ==
    {"topic", "story"} \cup (IF ShowsMoral(g) THEN {"moral"} ELSE {})

\* An except clause without st.exception.
ExceptHandler_without_detail(shown) == shown \cup {"error"}

\* An except clause that replaces what the run has written.
ExceptHandler_clearing(shown) == {"error", "exception"}

\* Lines 146-148: st.error and st.exception are added to what the run has
\* already written.
ExceptHandler(shown) == shown \cup {"error", "exception"}

\* An except clause that calls the chain again.
AfterExcept_retry == "invoke"

\* After the except clause the script ends and waits for the next interaction.
AfterExcept == "idle"

\* What a rerun of the script starts from: nothing written, no locals.
Rerun ==
    /\ call' = <<>>
    /\ result' = <<>>
    /\ exc' = "none"
    /\ stages' = <<>>
    /\ pdf_path' = NoPath
    /\ pdf' = <<>>
    /\ UNCHANGED <<files, nGenerated>>

Init ==
    /\ user_topic = ""
    /\ genre = "Adventure"
    /\ language = "English"
    /\ age = MinAge
    /\ name = ""
    /\ checkbox = TRUE
    /\ pc = "idle"
    /\ ui = {}
    /\ call = <<>>
    /\ result = <<>>
    /\ exc = "none"
    /\ stages = <<>>
    /\ files = {}
    /\ pdf_path = NoPath
    /\ pdf = <<>>
    /\ nGenerated = 0

\* A widget changes: the script reruns with the button not pressed.
SetTopic ==
    /\ pc = "idle"
    /\ \E v \in Topics \ {user_topic} : user_topic' = v
    /\ ui' = {} /\ pc' = "idle" /\ Rerun
    /\ UNCHANGED <<genre, language, age, name, checkbox>>

SetGenre ==
    /\ pc = "idle"
    /\ \E v \in Genres \ {genre} : genre' = v
    /\ ui' = {} /\ pc' = "idle" /\ Rerun
    /\ UNCHANGED <<user_topic, language, age, name, checkbox>>

SetLanguage ==
    /\ pc = "idle"
    /\ \E v \in Languages \ {language} : language' = v
    /\ ui' = {} /\ pc' = "idle" /\ Rerun
    /\ UNCHANGED <<user_topic, genre, age, name, checkbox>>

SetAge ==
    /\ pc = "idle"
    /\ \E v \in Ages \ {age} : age' = v
    /\ ui' = {} /\ pc' = "idle" /\ Rerun
    /\ UNCHANGED <<user_topic, genre, language, name, checkbox>>

SetName ==
    /\ pc = "idle"
    /\ \E v \in Names \ {name} : name' = v
    /\ ui' = {} /\ pc' = "idle" /\ Rerun
    /\ UNCHANGED <<user_topic, genre, language, age, checkbox>>

\* The checkbox exists only while age <= 18.
ToggleParentSafe ==
    /\ pc = "idle"
    /\ ~(age > 18)
    /\ checkbox' = ~checkbox
    /\ ui' = {} /\ pc' = "idle" /\ Rerun
    /\ UNCHANGED <<user_topic, genre, language, age, name>>

\* Lines 111-115: the button is pressed.
ClickGenerate ==
    /\ pc = "idle"
    /\ Rerun
    /\ \/ /\ RequiredFieldsMissing
          /\ ui' = {"warning"}
          /\ pc' = "idle"
       \/ /\ ~RequiredFieldsMissing
          /\ ui' = {}
          /\ pc' = "invoke"
    /\ UNCHANGED <<user_topic, genre, language, age, name, checkbox>>

\* Lines 117-134: the chain returns a StoryOutput and the run shows it.
InvokeReturns ==
    /\ pc = "invoke"
    /\ nGenerated < MaxGenerated
    /\ \E r \in Replies : result' = <<r>>
    /\ call' = <<[args |-> InvokeArgs, instruction |-> prompt(InvokeArgs)]>>
    /\ stages' = stages \o story_chain
    /\ nGenerated' = nGenerated + 1
    /\ ui' = ui \cup ShowResult(genre)
    /\ pc' = "render"
    /\ UNCHANGED <<user_topic, genre, language, age, name, checkbox, exc,
                   files, pdf_path, pdf>>

\* Lines 117-124, 146-148: the model call or the parser raises.
InvokeRaises ==
    /\ pc = "invoke"
    /\ call' = <<[args |-> InvokeArgs, instruction |-> prompt(InvokeArgs)]>>
    /\ \/ /\ exc' \in {"network error", "service error"}
          /\ stages' = stages \o SubSeq(story_chain, 1, 2)
       \/ /\ exc' = "OutputParserException"
          /\ stages' = stages \o story_chain
    /\ ui' = ExceptHandler(ui)
    /\ pc' = AfterExcept
    /\ UNCHANGED <<user_topic, genre, language, age, name, checkbox, result,
                   files, pdf_path, pdf, nGenerated>>

\* Lines 137, 68-87: generate_pdf returns the path of the file it wrote.
GeneratePdfReturns ==
    /\ pc = "render"
    /\ \E p \in NamedTemporaryFile(files) :
          /\ files' = files \cup {p}
          /\ pdf_path' = p
    /\ pdf' = generate_pdf(result[1])
    /\ stages' = Append(stages, "generate_pdf")
    /\ pc' = "download"
    /\ UNCHANGED <<user_topic, genre, language, age, name, checkbox, ui, call,
                   result, exc, nGenerated>>

\* Lines 137, 68-87, 146-148: generate_pdf raises, either in
\* NamedTemporaryFile (no file) or while writing the file it has created.
GeneratePdfRaises ==
    /\ pc = "render"
    /\ \/ /\ exc' = "OSError in NamedTemporaryFile"
          /\ files' = files
       \/ /\ exc' = "OSError in save"
          /\ \E p \in NamedTemporaryFile(files) : files' = files \cup {p}
    /\ stages' = Append(stages, "generate_pdf")
    /\ ui' = ExceptHandler(ui)
    /\ pc' = AfterExcept
    /\ UNCHANGED <<user_topic, genre, language, age, name, checkbox, call,
                   result, pdf_path, pdf, nGenerated>>

\* Lines 138-144: the file is opened and the download button is written.
DownloadOffered ==
    /\ pc = "download"
    /\ stages' = Append(stages, "download_button")
    /\ ui' = ui \cup {"download"}
    /\ pc' = "idle"
    /\ UNCHANGED <<user_topic, genre, language, age, name, checkbox, call,
                   result, exc, files, pdf_path, pdf, nGenerated>>

\* Lines 138, 146-148: opening the file raises.
OpenRaises ==
    /\ pc = "download"
    /\ exc' = "OSError in open"
    /\ stages' = Append(stages, "download_button")
    /\ ui' = ExceptHandler(ui)
    /\ pc' = AfterExcept
    /\ UNCHANGED <<user_topic, genre, language, age, name, checkbox, call,
                   result, files, pdf_path, pdf, nGenerated>>

Next ==
    \/ SetTopic
    \/ SetGenre
    \/ SetLanguage
    \/ SetAge
    \/ SetName
    \/ ToggleParentSafe
    \/ ClickGenerate
    \/ InvokeReturns
    \/ InvokeRaises
    \/ GeneratePdfReturns
    \/ GeneratePdfRaises
    \/ DownloadOffered
    \/ OpenRaises

Spec == Init /\ [][Next]_vars

-----------------------------------------------------------------------------
(* The renderer on its own: a run whose chain has just returned, for every *)
(* StoryOutput up to the bounds and every genre.                           *)

InitPdf ==
    /\ user_topic = "a brave fox"
    /\ genre \in Genres
    /\ language = "English"
    /\ age = 8
    /\ name = "Mia"
    /\ checkbox = TRUE
    /\ pc = "render"
    /\ ui = ShowResult(genre)
    /\ call = <<[args |-> InvokeArgs, instruction |-> prompt(InvokeArgs)]>>
    /\ result \in {<<r>> : r \in StoryOutputs}
    /\ exc = "none"
    /\ stages = story_chain
    /\ files = {}
    /\ pdf_path = NoPath
    /\ pdf = <<>>
    /\ nGenerated = 1

NextPdf ==
    \/ GeneratePdfReturns
    \/ GeneratePdfRaises
    \/ DownloadOffered
    \/ OpenRaises

SpecPdf == InitPdf /\ [][NextPdf]_vars

-----------------------------------------------------------------------------
(* The chain on its own: a run that has passed the validation, for every   *)
(* age the number input permits and every state of the other widgets.      *)

InitPrompt ==
    /\ user_topic \in Topics \ {""}
    /\ genre \in Genres
    /\ language \in Languages
    /\ age \in MinAge..MaxAge
    /\ name \in Names \ {""}
    /\ checkbox \in BOOLEAN
    /\ pc = "invoke"
    /\ ui = {}
    /\ call = <<>>
    /\ result = <<>>
    /\ exc = "none"
    /\ stages = <<>>
    /\ files = {}
    /\ pdf_path = NoPath
    /\ pdf = <<>>
    /\ nGenerated = 0

NextPrompt ==
    \/ InvokeReturns
    \/ InvokeRaises

SpecPrompt == InitPrompt /\ [][NextPrompt]_vars

-----------------------------------------------------------------------------
(* Claims *)

Widgets == <<user_topic, genre, language, age, name, checkbox>>

ClientErrors == {"network error", "service error", "OutputParserException"}

RenderErrors ==
    {"OSError in NamedTemporaryFile", "OSError in save", "OSError in open"}

MoralGenres == {"Motivational", "Educational"}

\* C1: a click with an empty topic or an empty character name never invokes
\* the generation client: the run shows the warning and nothing else.
C1_NoInvokeOnEmpty ==
    /\ [](user_topic = "" \/ name = "" =>
            /\ call = <<>> /\ result = <<>> /\ stages = <<>>
            /\ exc = "none" /\ pdf_path = NoPath
            /\ pc = "idle"
            /\ ui \subseteq {"warning"})
    /\ [][(/\ pc = "idle"
           /\ Widgets' = Widgets
           /\ (user_topic = "" \/ name = ""))
          => (ui' = {"warning"} /\ call' = <<>> /\ pc' = "idle")]_vars

C1_Witness ==
    /\ user_topic # "" /\ name = ""
    /\ ui = {"warning"}
    /\ nGenerated > 0

\* C2: whenever the chain is invoked with an age above 18, the parent_safe
\* value it is given is false, whatever the checkbox holds.
C2_ParentSafeOffAbove18 ==
    call # <<>> /\ call[1].args.age > 18 => call[1].args.parent_safe = FALSE

C2_Witness ==
    /\ call # <<>>
    /\ call[1].args.age > 18
    /\ checkbox = TRUE
    /\ call[1].args.parent_safe = FALSE

\* C3: once the chain has returned, the run shows Topic and Story, and the
\* Moral exactly for the genres Motivational and Educational.
C3_MoralOnlyForMoralGenres ==
    result # <<>> =>
        /\ {"topic", "story"} \subseteq ui
        /\ ("moral" \in ui <=> genre \in MoralGenres)

C3_Witness ==
    /\ result # <<>>
    /\ genre = "Fairy Tale"
    /\ result[1].Moral # <<>>
    /\ "story" \in ui
    /\ "moral" \notin ui

\* C4: a run whose chain raised ends showing the failure message and the
\* exception and nothing else: no result, no document, no download; and the
\* button can be clicked again.
C4_ClientFailureShowsErrorOnly ==
    exc \in ClientErrors =>
        /\ pc = "idle"
        /\ ui = {"error", "exception"}
        /\ result = <<>>
        /\ pdf = <<>> /\ pdf_path = NoPath
        /\ \A i \in 1..Len(stages) : stages[i] \in Range(story_chain)
        /\ ENABLED ClickGenerate

C4_Witness ==
    /\ exc = "OutputParserException"
    /\ pc = "idle"
    /\ ui = {"error", "exception"}

Pipeline == story_chain \o <<"generate_pdf", "download_button">>

\* C5: within one run the stages are entered at most once each and in
\* pipeline order; the renderer only after the chain has returned a result,
\* the download only after the renderer has returned; after a failure the
\* run is over and the failing stage is the last one entered.
C5_LinearNoRetry ==
    /\ Len(stages) <= Len(Pipeline)
    /\ stages = SubSeq(Pipeline, 1, Len(stages))
    /\ "generate_pdf" \in Range(stages) => result # <<>>
    /\ "download_button" \in Range(stages) => pdf_path # NoPath
    /\ "download" \in ui => pdf_path # NoPath /\ stages = Pipeline
    /\ exc # "none" => pc = "idle"
    /\ exc \in ClientErrors => stages[Len(stages)] \in {"llm", "story_parser"}
    /\ exc \in RenderErrors \ {"OSError in open"} =>
           stages[Len(stages)] = "generate_pdf"
    /\ pc = "invoke" => stages = <<>>
    /\ pc = "render" => stages = story_chain
    /\ pc = "download" => stages = Append(story_chain, "generate_pdf")

C5_Witness ==
    /\ stages = Pipeline
    /\ "download" \in ui
    /\ nGenerated = MaxGenerated

\* The pieces joined with a newline between neighbours.
RECURSIVE Join(_)
Join(pieces) ==
    IF Len(pieces) = 1 THEN pieces[1]
    ELSE pieces[1] \o <<NL>> \o Join(Tail(pieces))

\* The layout of the document of a run whose generate_pdf has returned: the
\* Topic in bold 14pt, an empty line, one line per newline-separated piece of
\* the Story, a line holding `label`, and the Moral as the last line.
C6_Layout(label) ==
    pdf_path # NoPath =>
        LET r == result[1]
            n == Len(pdf)
            k == Cardinality({i \in 1..Len(r.Story) : r.Story[i] = NL})
            body == [i \in 1..(k + 1) |-> pdf[2 + i].text]
        IN  /\ n = k + 5
            /\ pdf[1] = TextLine("Helvetica-Bold", 14, r.Topic)
            /\ pdf[2].text = <<>>
            /\ \A i \in 1..(k + 1) : NL \notin Range(body[i])
            /\ Join(body) = r.Story
            /\ pdf[n - 1].text = label
            /\ pdf[n].text = r.Moral

\* C6: generate_pdf emits the Topic (bold 14pt), an empty line, one line per
\* newline-separated piece of the Story, the literal label "Moral:" and the
\* Moral, for every genre.
C6_LiteralMoralLabel ==
    C6_Layout(<<"M", "o", "r", "a", "l", ":">>)

\* The same layout with the label as the code passes it to textLine, a
\* newline character followed by "Moral:" (holds).
C6_LabelWithNewline ==
    C6_Layout(<<NL, "M", "o", "r", "a", "l", ":">>)

\* C7 as stated: once a run is over, there are as many temporary files as
\* runs whose generation succeeded.
C7_FilesEqualGenerations ==
    pc = "idle" => Cardinality(files) = nGenerated

\* C7 amended: a run whose generation succeeded creates exactly one new
\* temporary file, under a name no existing file has, unless its
\* NamedTemporaryFile call raises, and then none; no other step creates a file
\* and no step deletes one; so the files only grow and are at most as many as
\* the runs whose generation succeeded.
C7_FilesOnlyGrow ==
    /\ [](/\ Cardinality(files) <= nGenerated
          /\ pdf_path # NoPath => pdf_path \in files)
    /\ [][/\ files \subseteq files'
          /\ pc = "render" =>
                IF exc' = "OSError in NamedTemporaryFile"
                THEN files' = files
                ELSE Cardinality(files' \ files) = 1
          /\ pc # "render" => files' = files
          /\ pdf_path' # pdf_path /\ pdf_path' # NoPath =>
                pdf_path' \notin files /\ files' = files \cup {pdf_path'}
          /\ nGenerated' =
                IF pc = "invoke" /\ result' # <<>>
                THEN nGenerated + 1 ELSE nGenerated]_vars

C7_Witness ==
    /\ Cardinality(files) = 2
    /\ nGenerated = 2
    /\ pdf_path \in files
    /\ "download" \in ui

\* The first index of x in s.
IndexOf(s, x) ==
    CHOOSE i \in 1..Len(s) : s[i] = x /\ \A j \in 1..(i - 1) : s[j] # x

DigitValue(c) == CHOOSE d \in 0..9 : Digit[d + 1] = c

\* The number a sequence of decimal digits denotes.
RECURSIVE ParseInt(_)
ParseInt(ds) ==
    IF Len(ds) = 1 THEN DigitValue(ds[1])
    ELSE 10 * ParseInt(SubSeq(ds, 1, Len(ds) - 1)) + DigitValue(ds[Len(ds)])

\* The bands of the claim and the guidance of each.
C8_Bands ==
    << <<3, 6, "- Age 3-6: Very simple words, cheerful tone, short sentences">>,
       <<7, 12, "- Age 7-12: Simple plot, light adventure, positive moral">>,
       <<13, 17, "- Age 13-17: Deeper emotions, character growth, mild conflict">>,
       <<18, MaxAge, "- Age 18+: Mature themes, nuanced characters, richer language">> >>

\* C8: every permitted age lies in exactly one of the bands 3-6, 7-12, 13-17,
\* 18+, and the instruction of every invocation holds the guidance of the
\* band of its age, and the topic, age, genre and name the user gave.
C8_AgeBandInPrompt ==
    /\ \A a \in MinAge..MaxAge :
          Cardinality({i \in 1..Len(C8_Bands) :
                          C8_Bands[i][1] <= a /\ a <= C8_Bands[i][2]}) = 1
    /\ call # <<>> =>
          LET args == call[1].args
              instr == call[1].instruction
          IN  /\ args.age \in MinAge..MaxAge
              /\ args.topic # "" /\ args.name # ""
              /\ args.topic = user_topic /\ args.age = age
              /\ args.genre = genre /\ args.name = name
              /\ \A i \in 1..Len(C8_Bands) :
                    C8_Bands[i][1] <= args.age /\ args.age <= C8_Bands[i][2]
                    => C8_Bands[i][3] \in Range(instr)
              /\ instr[IndexOf(instr, TopicLabel) + 1] = args.topic
              /\ ParseInt(SubSeq(instr, IndexOf(instr, AgeLabel) + 1,
                                 IndexOf(instr, GenreLabel) - 1)) = args.age
              /\ instr[IndexOf(instr, GenreLabel) + 1] = args.genre
              /\ instr[IndexOf(instr, NameLabel) + 1] = args.name

C8_Witness ==
    /\ call # <<>>
    /\ call[1].args.age = 8
    /\ call[1].args.genre = "Adventure"
    /\ C8_Bands[2][3] \in Range(call[1].instruction)

\* C9: the instruction of an invocation is the one the same topic, age,
\* genre and name give with any other language and any other parent-safe
\* flag.
C9_PromptIgnoresLanguageAndFlag ==
    call # <<>> =>
        \A l \in Languages, ps \in BOOLEAN :
            prompt([call[1].args EXCEPT !.language = l, !.parent_safe = ps])
                = call[1].instruction

C9_Witness ==
    /\ call # <<>>
    /\ call[1].args.language = "Gujarati"
    /\ call[1].args.parent_safe = TRUE
    /\ call[1].args.age = 18
    /\ result # <<>>

\* C10: a run whose chain returned but whose renderer or file read raised
\* ends showing the failure message and the exception next to the Topic and
\* Story (and the Moral for the two moral genres), without a download; a
\* download is shown exactly by the finished runs in which the chain, the
\* renderer and the file read all succeeded.
C10_RenderFailureKeepsStory ==
    /\ exc \in RenderErrors =>
          /\ pc = "idle"
          /\ result # <<>>
          /\ ui = {"error", "exception", "topic", "story"}
                    \cup (IF genre \in MoralGenres THEN {"moral"} ELSE {})
    /\ "download" \in ui <=>
          /\ pc = "idle" /\ exc = "none"
          /\ result # <<>> /\ pdf_path # NoPath

C10_Witness ==
    /\ exc = "OSError in save"
    /\ genre = "Educational"
    /\ {"topic", "story", "moral", "error", "exception"} \subseteq ui
    /\ "download" \notin ui

====
